---- MODULE Spec2Model ----
(***************************************************************************)
(* State-machine model of netfilter.h: the cgo glue between the kernel's   *)
(* NFQUEUE verdict queue and the Go decision callback.                     *)
(*                                                                         *)
(*   stop                  the file-scope flag (line 32)                   *)
(*   nf_callback           the per-packet bridge (lines 42-61)             *)
(*   CreateQueue           binds a queue and threads idx through (63-66)   *)
(*   SetQueueFailOpen      sets NFQA_CFG_F_FAIL_OPEN (68-70)               *)
(*   stop_reading_packets  sets the flag (72-74)                           *)
(*   Run                   the blocking receive loop (76-92)               *)
(*                                                                         *)
(* Each binding b has its own netlink handle, socket and thread running    *)
(* Run.  stop is unsynchronised: a read that races with the store sees the *)
(* old or the new byte, which is what the interleaving of the single store *)
(* step with the single read steps produces.                               *)
(***************************************************************************)
EXTENDS Integers, Sequences, FiniteSets, TLC

\* ------------------------------------------------------------- bounds
MaxRecv == 2        \* receives that return data, per Run
MaxBatch == 2       \* packet notifications in one received buffer
MaxPayload == 2     \* payload bytes of one notification
MaxStopCalls == 2   \* calls of stop_reading_packets
MaxRecvTwo == 1     \* receives that return data, per Run, with two loops

Bindings == {1, 2}

\* ------------------------------------------------------------- errno
\* errno values left by the calls Run makes (errno.h, line 23).
EntryErrnos == {0, 11}       \* errno of the calling thread when Run is entered
SetsockoptErrnos == {92}     \* setsockopt failing (ENOPROTOOPT)
RecvErrnos == {4, 105}       \* recv failing (EINTR, ENOBUFS)
CallbackErrnos == {1}        \* a call made inside go_callback failing (EPERM)

\* ------------------------------------------------------------- byte order
\* struct nfqnl_msg_packet_hdr carries packet_id in network byte order.
BE32(k) == << (k \div 16777216) % 256, (k \div 65536) % 256,
              (k \div 256) % 256, k % 256 >>

\* The 32-bit load of ph->packet_id from memory on the host.
HostLoad32(bytes, e) ==
    IF e = "little"
    THEN bytes[1] + 256 * bytes[2] + 65536 * bytes[3] + 16777216 * bytes[4]
    ELSE 16777216 * bytes[1] + 65536 * bytes[2] + 256 * bytes[3] + bytes[4]

Bswap32(x) == (x % 256) * 16777216 + ((x \div 256) % 256) * 65536
              + ((x \div 65536) % 256) * 256 + ((x \div 16777216) % 256)

ntohl(x, e) == IF e = "little" THEN Bswap32(x) ELSE x

\* The value the wire bytes of a header denote (the kernel's packet id).
WireId(bytes) == 16777216 * bytes[1] + 65536 * bytes[2] + 256 * bytes[3] + bytes[4]

\* ------------------------------------------------------------- inputs
\* A decoded notification (struct nfq_data): ph is the NFQA_PACKET_HDR
\* attribute's packet_id bytes (<<>> when the attribute is absent), hasData
\* tells whether the NFQA_PAYLOAD attribute is present, data are its bytes.
Pattern(n) == [i \in 1..n |-> (69 + 187 * (i - 1)) % 256]

Notif(k, has, d) == [ph |-> BE32(k), hasData |-> has, data |-> d]
NoHdrNotif(d) == [ph |-> <<>>, hasData |-> TRUE, data |-> d]

SeqsUpTo(S, n) == UNION {[1..k -> S] : k \in 0..n}

\* Line 47: id is overwritten by the load through ph; with ph NULL the load
\* is undefined and, when it does not fault, yields an arbitrary word.
UBIds == {0, 16777215}

\* ------------------------------------------------------------- state
VARIABLES
    stop,       \* static uint8_t stop (line 32)
    stopCalls,  \* completed calls of stop_reading_packets
    proc,       \* "alive", or "crashed" once a thread has faulted
    endian,     \* byte order of the host
    bind,       \* per binding: the handle, queue number and idx CreateQueue was
                \* given, the token the library keeps, the fail-open flag
    pc,         \* per binding: where its thread is within Run / nf_callback
    errno,      \* per thread: errno
    dirty,      \* per thread: errno was non-zero on entry or a call has set it
    nopt,       \* per Run: setsockopt calls made (line 82)
    rv,         \* per Run: sign class of recv's result: -1, 0, 1 (1: n > 0 bytes)
    buf,        \* per Run: notifications held by buf[4096] (line 78)
    pos,        \* per Run: notification nfq_handle_packet is at (0: none)
    nrecv,      \* per Run: receives that returned data
    bufCalls,   \* per Run: go_callback calls made for the buffer in buf
    arg,        \* per Run: arguments of the go_callback call in progress (line 59)
    cbrc,       \* per Run: what the latest nf_callback returned
    hrc,        \* per Run: what the latest nfq_handle_packet returned (discarded)
    status,     \* per Run: the value Run returned
    why,        \* per Run: "running", or which return ended it
    stoppedAt,  \* per Run: nrecv when the first stop_reading_packets completed, -1 before
    lateBound,  \* per binding: CreateQueue bound it with stop already set
    pending     \* per binding: ids of the packets its queue holds awaiting a verdict

shared == <<stop, stopCalls, proc, endian, bind, stoppedAt, lateBound>>
errs == <<errno, dirty>>
bufs == <<rv, buf, nrecv>>
cbs == <<arg, cbrc, bufCalls>>
ends == <<status, why>>
vars == <<stop, stopCalls, proc, endian, bind, pc, errno, dirty, nopt, rv,
          buf, pos, nrecv, bufCalls, arg, cbrc, hrc, status, why, stoppedAt,
          lateBound, pending>>

\* ------------------------------------------------------------- the glue's values
\* Line 65: (void*)((uintptr_t)idx), a zero-extension of the 32-bit idx.
CbToken(idx) == [hi |-> 0, lo |-> idx]

\* Line 57: (uint32_t)((uintptr_t)cb_func), the low 32 bits of the token.
\* (Faulty variant: a 16-bit cast.)
IdxOfTokenShort(tok) == tok.lo % 65536
IdxOfToken(tok) == tok.lo

\* Line 73: the value stop_reading_packets stores, given the old one.
\* (Faulty variants: no store, a toggle.)
StopStoreNone(s) == s
StopStoreToggle(s) == 1 - s
StopStore(s) == 1

\* Line 85: Run's test of the flag.  (Faulty variant: the test left out.)
RunSeesStopNever(s) == FALSE
RunSeesStop(s) == s = 1

\* Line 82: the one setsockopt call Run makes, before the loop; n counts the
\* calls made so far.  (Faulty variant: the call left out.)
OptCallsNone(n) == n
OptCalls(n) == n + 1

\* Line 84: the while condition on recv's result r.  (Faulty variant: a loop
\* that goes on whatever recv returned.)
LoopCondAlways(r) == TRUE
LoopCond(r) == r # 0 /\ r >= 0

\* Line 43: nf_callback's test of the flag.  (Faulty variant: the test left
\* out.)
CbSeesStopNever(s) == FALSE
CbSeesStop(s) == s # 0

\* Lines 44 and 60: nf_callback returns -1 when it saw the flag set, and 0
\* after go_callback.  (Faulty variants: 0 in both places, -1 in both.)
NfCallbackRetZero(stopped) == 0
NfCallbackRetNeg(stopped) == -1
NfCallbackRet(stopped) == IF stopped THEN -1 ELSE 0

\* Lines 53-54: id = ntohl(ph->packet_id).  (Faulty variant: no ntohl.)
PacketIdNoSwap(ph, e) == HostLoad32(ph, e)
PacketId(ph, e) == ntohl(HostLoad32(ph, e), e)

\* Line 56: ret = nfq_get_payload(nfa, &buffer): the payload's length, and
\* -1 with buffer left NULL when the notification has no payload attribute.
PayloadRet(n) == IF n.hasData THEN Len(n.data) ELSE -1
PayloadPtr(n) == IF n.hasData THEN n.data ELSE <<>>

\* Lines 42-61: what nf_callback's own statements do to the set P of packets
\* awaiting a verdict when they handle packet id: nothing, there is no
\* nfq_set_verdict call in it.  (Faulty variant: the bridge accepting the
\* packet itself.)
NfCallbackPendingAccept(P, id) == P \ {id}
NfCallbackPending(P, id) == P

\* The packets the kernel holds for the notifications of a buffer m: each
\* stays queued under its id until a verdict names it.
QueuedIds(m) == {WireId(m[i].ph) : i \in {j \in 1..Len(m) : Len(m[j].ph) = 4}}

\* Lines 86, 91: return errno.  e is errno, r is rv.
\* (Faulty variants: return 0, return rv.)
RunStatusZero(e, r) == 0
RunStatusRv(e, r) == r
RunStatus(e, r) == e

\* Line 59: the arguments go_callback is called with.
CallArgs(n, id, tok, q) ==
    [id |-> id, data |-> PayloadPtr(n), null |-> ~n.hasData,
     len |-> PayloadRet(n), idx |-> IdxOfToken(tok), qh |-> q]

NoArg == [id |-> 0, data |-> <<>>, null |-> TRUE, len |-> 0, idx |-> 0, qh |-> 0]
NoBind == [qh |-> 0, queue |-> 0, idx |-> 0, token |-> CbToken(0), failopen |-> FALSE]

\* ------------------------------------------------------------- nfq_handle_packet
\* The decode loop of the library walks the buffer's notifications in order,
\* calls the queue's callback for each and stops at the first negative result.
AfterCbPc(b, rc) == IF rc >= 0 /\ pos[b] < Len(buf[b]) THEN "cb_entry" ELSE "recv"
AfterCbPos(b, rc) == IF rc >= 0 /\ pos[b] < Len(buf[b]) THEN pos[b] + 1 ELSE pos[b]
AfterCbHrc(b, rc) ==
    IF rc < 0 THEN -1 ELSE IF pos[b] < Len(buf[b]) THEN hrc[b] ELSE 0

Cur(b) == buf[b][pos[b]]

\* Line 59: go_callback is called on Run's own thread, which is inside it
\* until it returns.  (Faulty variant: the call handed to another thread and
\* Run going on to its next receive.)
CallPcDetached(b) == "recv"
CallPc(b) == "go_callback"

\* Lines 84-91: where Run is once recv has returned r, and what it has
\* returned by then: inside the loop body, or past the loop at return errno.
AfterRecvPc(r) == IF LoopCond(r) THEN "check" ELSE "done"
AfterRecvWhy(b, r, w) == IF LoopCond(r) THEN why[b] ELSE w
AfterRecvStatus(b, r, e) == IF LoopCond(r) THEN status[b] ELSE RunStatus(e, r)
HasHdr(n) == Len(n.ph) = 4

\* ------------------------------------------------------------- Init
Init ==
    /\ stop = 0
    /\ stopCalls = 0
    /\ proc = "alive"
    /\ endian \in {"little", "big"}
    /\ bind = [b \in Bindings |-> NoBind]
    /\ pc = [b \in Bindings |-> "idle"]
    /\ errno = [b \in Bindings |-> 0]
    /\ dirty = [b \in Bindings |-> FALSE]
    /\ nopt = [b \in Bindings |-> 0]
    /\ rv = [b \in Bindings |-> 0]
    /\ buf = [b \in Bindings |-> <<>>]
    /\ pos = [b \in Bindings |-> 0]
    /\ nrecv = [b \in Bindings |-> 0]
    /\ bufCalls = [b \in Bindings |-> 0]
    /\ arg = [b \in Bindings |-> NoArg]
    /\ cbrc = [b \in Bindings |-> 0]
    /\ hrc = [b \in Bindings |-> 0]
    /\ status = [b \in Bindings |-> 0]
    /\ why = [b \in Bindings |-> "running"]
    /\ stoppedAt = [b \in Bindings |-> -1]
    /\ lateBound = [b \in Bindings |-> FALSE]
    /\ pending = [b \in Bindings |-> {}]

\* ------------------------------------------------------------- input sets
QueueNums == {0, 1}
IdxVals == {7, 65543}

\* The notifications a single loop is fed: every payload length with one
\* packet id, a notification with a second id and without the payload
\* attribute, and one without the packet header.
Notifs ==
    {Notif(42, TRUE, Pattern(n)) : n \in 0..MaxPayload}
        \cup {Notif(258, FALSE, <<>>), NoHdrNotif(Pattern(1))}
Buffers == SeqsUpTo(Notifs, MaxBatch)

\* The notifications a loop is fed when go_callback may leave the verdict
\* for later: two packet ids, with and without payload, and no packet header.
NotifsVerdict ==
    {Notif(42, TRUE, Pattern(1)), Notif(258, FALSE, <<>>), NoHdrNotif(Pattern(1))}
BuffersVerdict == SeqsUpTo(NotifsVerdict, MaxBatch)

\* The notifications two concurrent loops are fed, one per buffer.
NotifsTwo == {Notif(42, TRUE, Pattern(1)), NoHdrNotif(Pattern(1))}
BuffersTwo == SeqsUpTo(NotifsTwo, 1)

\* ------------------------------------------------------------- actions
\* CreateQueue (lines 63-66).  nfq_create_queue yields NULL when the queue
\* number is already bound, and else a handle that keeps the callback token.
CreateQueue(b, q, idx) ==
    /\ proc = "alive"
    /\ pc[b] = "idle"
    /\ bind[b].qh = 0
    /\ bind' = [bind EXCEPT ![b] =
                  IF \E o \in Bindings : bind[o].qh # 0 /\ bind[o].queue = q
                  THEN NoBind
                  ELSE [qh |-> b, queue |-> q, idx |-> idx,
                        token |-> CbToken(idx), failopen |-> FALSE]]
    /\ lateBound' = [lateBound EXCEPT ![b] = bind'[b].qh # 0 /\ stop # 0]
    /\ UNCHANGED <<stop, stopCalls, proc, endian, stoppedAt, pc, errs, nopt, bufs,
                   pos, cbs, hrc, ends, pending>>

\* SetQueueFailOpen (lines 68-70): the kernel sets the flag on the queue, or
\* rejects the request and leaves the queue as it was.
SetQueueFailOpen(b) ==
    /\ proc = "alive"
    /\ bind[b].qh # 0
    /\ \E ok \in BOOLEAN :
          bind' = [bind EXCEPT ![b].failopen = bind[b].failopen \/ ok]
    /\ UNCHANGED <<stop, stopCalls, proc, endian, stoppedAt, lateBound, pc, errs,
                   nopt, bufs, pos, cbs, hrc, ends, pending>>

\* stop_reading_packets (lines 72-74).
StopReadingPackets ==
    /\ proc = "alive"
    /\ stopCalls < MaxStopCalls
    /\ stop' = StopStore(stop)
    /\ stopCalls' = stopCalls + 1
    /\ stoppedAt' = IF stopCalls = 0 THEN nrecv ELSE stoppedAt
    /\ UNCHANGED <<proc, endian, bind, lateBound, pc, errs, nopt, bufs, pos, cbs,
                   hrc, ends, pending>>

\* Run, lines 76-82: entry and the setsockopt call, whose result is dropped.
\* E0: errno of the calling thread on entry; E1: what a failing setsockopt
\* leaves in errno (0 stands for success, which leaves errno alone).
RunEnter(b, E0, E1) ==
    /\ proc = "alive"
    /\ pc[b] = "idle"
    /\ bind[b].qh # 0
    /\ \E e0 \in E0, e1 \in E1 :
          /\ errno' = [errno EXCEPT ![b] = IF e1 = 0 THEN e0 ELSE e1]
          /\ dirty' = [dirty EXCEPT ![b] = e1 # 0 \/ e0 # 0]
    /\ nopt' = [nopt EXCEPT ![b] = OptCalls(nopt[b])]
    /\ pc' = [pc EXCEPT ![b] = "recv"]
    /\ UNCHANGED <<shared, bufs, pos, cbs, hrc, ends, pending>>

\* Run, line 84: recv returns n > 0 bytes; errno is left as it was.
RunRecvData(b, B, max) ==
    /\ proc = "alive"
    /\ pc[b] = "recv"
    /\ nrecv[b] < max
    /\ \E m \in B :
          /\ buf' = [buf EXCEPT ![b] = m]
          /\ pending' = [pending EXCEPT ![b] = pending[b] \cup QueuedIds(m)]
    /\ rv' = [rv EXCEPT ![b] = 1]
    /\ nrecv' = [nrecv EXCEPT ![b] = nrecv[b] + 1]
    /\ pos' = [pos EXCEPT ![b] = 0]
    /\ bufCalls' = [bufCalls EXCEPT ![b] = 0]
    /\ pc' = [pc EXCEPT ![b] = AfterRecvPc(1)]
    /\ status' = [status EXCEPT ![b] = AfterRecvStatus(b, 1, errno[b])]
    /\ why' = [why EXCEPT ![b] = AfterRecvWhy(b, 1, "closed")]
    /\ UNCHANGED <<shared, errs, nopt, arg, cbrc, hrc>>

\* Run, lines 84 and 91: recv returns 0, the loop ends, Run returns errno.
RunRecvZero(b) ==
    /\ proc = "alive"
    /\ pc[b] = "recv"
    /\ rv' = [rv EXCEPT ![b] = 0]
    /\ status' = [status EXCEPT ![b] = AfterRecvStatus(b, 0, errno[b])]
    /\ why' = [why EXCEPT ![b] = AfterRecvWhy(b, 0, "closed")]
    /\ pc' = [pc EXCEPT ![b] = AfterRecvPc(0)]
    /\ UNCHANGED <<shared, errs, nopt, buf, nrecv, pos, cbs, hrc, pending>>

\* Run, lines 84 and 91: recv fails with -1 and sets errno, Run returns errno.
RunRecvError(b, E) ==
    /\ proc = "alive"
    /\ pc[b] = "recv"
    /\ \E e \in E :
          /\ errno' = [errno EXCEPT ![b] = e]
          /\ status' = [status EXCEPT ![b] = AfterRecvStatus(b, -1, e)]
    /\ dirty' = [dirty EXCEPT ![b] = TRUE]
    /\ rv' = [rv EXCEPT ![b] = -1]
    /\ why' = [why EXCEPT ![b] = AfterRecvWhy(b, -1, "error")]
    /\ pc' = [pc EXCEPT ![b] = AfterRecvPc(-1)]
    /\ UNCHANGED <<shared, nopt, buf, nrecv, pos, cbs, hrc, pending>>

\* Run, lines 85-87: the flag is set, Run returns errno.
RunStopExit(b) ==
    /\ proc = "alive"
    /\ pc[b] = "check"
    /\ RunSeesStop(stop)
    /\ status' = [status EXCEPT ![b] = RunStatus(errno[b], rv[b])]
    /\ why' = [why EXCEPT ![b] = "stop"]
    /\ pc' = [pc EXCEPT ![b] = "done"]
    /\ UNCHANGED <<shared, errs, nopt, bufs, pos, cbs, hrc, pending>>

\* Run, lines 85 and 88: the flag is clear, the buffer goes to
\* nfq_handle_packet, which enters the callback for the first notification,
\* or returns 0 at once when the buffer holds none.
RunHandlePacket(b) ==
    /\ proc = "alive"
    /\ pc[b] = "check"
    /\ ~RunSeesStop(stop)
    /\ IF Len(buf[b]) = 0
       THEN /\ pc' = [pc EXCEPT ![b] = "recv"]
            /\ hrc' = [hrc EXCEPT ![b] = 0]
            /\ pos' = pos
       ELSE /\ pc' = [pc EXCEPT ![b] = "cb_entry"]
            /\ pos' = [pos EXCEPT ![b] = 1]
            /\ hrc' = hrc
    /\ UNCHANGED <<shared, errs, nopt, bufs, cbs, ends, pending>>

\* nf_callback, lines 43-45: the flag is set, return -1; the decode loop
\* gives up the buffer and Run, dropping the result, is back at recv.
NfCallbackStop(b) ==
    /\ proc = "alive"
    /\ pc[b] = "cb_entry"
    /\ CbSeesStop(stop)
    /\ cbrc' = [cbrc EXCEPT ![b] = NfCallbackRet(TRUE)]
    /\ pc' = [pc EXCEPT ![b] = AfterCbPc(b, NfCallbackRet(TRUE))]
    /\ pos' = [pos EXCEPT ![b] = AfterCbPos(b, NfCallbackRet(TRUE))]
    /\ hrc' = [hrc EXCEPT ![b] = AfterCbHrc(b, NfCallbackRet(TRUE))]
    /\ UNCHANGED <<shared, errs, nopt, bufs, arg, bufCalls, ends, pending>>

\* nf_callback, line 43: the flag is clear.
NfCallbackGo(b) ==
    /\ proc = "alive"
    /\ pc[b] = "cb_entry"
    /\ ~CbSeesStop(stop)
    /\ pc' = [pc EXCEPT ![b] = "cb_body"]
    /\ UNCHANGED <<shared, errs, nopt, bufs, pos, cbs, hrc, ends, pending>>

\* nf_callback, lines 47-59, packet header present: go_callback is called.
NfCallbackDispatch(b) ==
    /\ proc = "alive"
    /\ pc[b] = "cb_body"
    /\ HasHdr(Cur(b))
    /\ arg' = [arg EXCEPT ![b] =
                 CallArgs(Cur(b), PacketId(Cur(b).ph, endian), bind[b].token, bind[b].qh)]
    /\ pending' = [pending EXCEPT ![b] =
                     NfCallbackPending(pending[b], PacketId(Cur(b).ph, endian))]
    /\ bufCalls' = [bufCalls EXCEPT ![b] = bufCalls[b] + 1]
    /\ pc' = [pc EXCEPT ![b] = CallPc(b)]
    /\ UNCHANGED <<shared, errs, nopt, bufs, pos, cbrc, hrc, ends>>

\* nf_callback, lines 53-54, packet header absent: ph is NULL and
\* ph->packet_id is undefined.  One outcome: the load faults, the process dies.
NfCallbackNullFault(b) ==
    /\ proc = "alive"
    /\ pc[b] = "cb_body"
    /\ ~HasHdr(Cur(b))
    /\ proc' = "crashed"
    /\ pc' = [pc EXCEPT ![b] = "fault"]
    /\ UNCHANGED <<stop, stopCalls, endian, bind, stoppedAt, lateBound, errs, nopt,
                   bufs, pos, cbs, hrc, ends, pending>>

\* The other outcome: the load yields some word and nf_callback goes on to
\* call go_callback with it.
NfCallbackNullWild(b) ==
    /\ proc = "alive"
    /\ pc[b] = "cb_body"
    /\ ~HasHdr(Cur(b))
    /\ \E w \in UBIds :
          /\ arg' = [arg EXCEPT ![b] = CallArgs(Cur(b), w, bind[b].token, bind[b].qh)]
          /\ pending' = [pending EXCEPT ![b] = NfCallbackPending(pending[b], w)]
    /\ bufCalls' = [bufCalls EXCEPT ![b] = bufCalls[b] + 1]
    /\ pc' = [pc EXCEPT ![b] = CallPc(b)]
    /\ UNCHANGED <<shared, errs, nopt, bufs, pos, cbrc, hrc, ends>>

\* nf_callback, lines 59-60: go_callback returns, having left errno alone
\* (0 in E) or set it, and having issued a verdict for the id it was given
\* (TRUE in V) or left that for later; nf_callback returns 0 and the decode
\* loop moves on.
GoCallbackReturn(b, E, V) ==
    /\ proc = "alive"
    /\ pc[b] = "go_callback"
    /\ \E e \in E :
          /\ errno' = [errno EXCEPT ![b] = IF e = 0 THEN errno[b] ELSE e]
          /\ dirty' = [dirty EXCEPT ![b] = dirty[b] \/ e # 0]
    /\ \E v \in V :
          pending' = [pending EXCEPT ![b] =
                         IF v THEN pending[b] \ {arg[b].id} ELSE pending[b]]
    /\ arg' = [arg EXCEPT ![b] = NoArg]
    /\ cbrc' = [cbrc EXCEPT ![b] = NfCallbackRet(FALSE)]
    /\ pc' = [pc EXCEPT ![b] = AfterCbPc(b, NfCallbackRet(FALSE))]
    /\ pos' = [pos EXCEPT ![b] = AfterCbPos(b, NfCallbackRet(FALSE))]
    /\ hrc' = [hrc EXCEPT ![b] = AfterCbHrc(b, NfCallbackRet(FALSE))]
    /\ UNCHANGED <<shared, nopt, bufs, bufCalls, ends>>

\* ------------------------------------------------------------- specifications
\* One binding (queue 0, index 7), its loop and a thread calling
\* stop_reading_packets; go_callback issues its verdict before it returns.
Loops == {1}

Next ==
    \/ \E b \in Loops : CreateQueue(b, 0, 7)
    \/ StopReadingPackets
    \/ \E b \in Loops : RunEnter(b, EntryErrnos, {0} \cup SetsockoptErrnos)
    \/ \E b \in Loops : RunRecvData(b, Buffers, MaxRecv)
    \/ \E b \in Loops : RunRecvZero(b)
    \/ \E b \in Loops : RunRecvError(b, RecvErrnos)
    \/ \E b \in Loops : RunStopExit(b)
    \/ \E b \in Loops : RunHandlePacket(b)
    \/ \E b \in Loops : NfCallbackStop(b)
    \/ \E b \in Loops : NfCallbackGo(b)
    \/ \E b \in Loops : NfCallbackDispatch(b)
    \/ \E b \in Loops : NfCallbackNullFault(b)
    \/ \E b \in Loops : NfCallbackNullWild(b)
    \/ \E b \in Loops : GoCallbackReturn(b, {0} \cup CallbackErrnos, {TRUE})

Spec == Init /\ [][Next]_vars

\* The steps of the thread that runs Run on binding b.
RunStep(b) ==
    \/ RunEnter(b, EntryErrnos, {0} \cup SetsockoptErrnos)
    \/ RunRecvData(b, Buffers, MaxRecv)
    \/ RunRecvZero(b)
    \/ RunRecvError(b, RecvErrnos)
    \/ RunStopExit(b)
    \/ RunHandlePacket(b)
    \/ NfCallbackStop(b)
    \/ NfCallbackGo(b)
    \/ NfCallbackDispatch(b)
    \/ NfCallbackNullFault(b)
    \/ NfCallbackNullWild(b)
    \/ GoCallbackReturn(b, {0} \cup CallbackErrnos, {TRUE})

\* The same program with its scheduling: a thread that can take a step of Run
\* or nf_callback takes one, every recv it is blocked in returns (with data,
\* zero bytes or an error), and every go_callback call returns.
SpecLive == Spec /\ \A b \in Loops : WF_vars(RunStep(b))

\* One binding with the fail-open flag at the caller's choice; go_callback
\* issues the verdict for the id it was given before it returns, or leaves
\* it to be issued later.
NextVerdict ==
    \/ \E b \in Loops : CreateQueue(b, 0, 7)
    \/ \E b \in Loops : SetQueueFailOpen(b)
    \/ StopReadingPackets
    \/ \E b \in Loops : RunEnter(b, {0}, {0})
    \/ \E b \in Loops : RunRecvData(b, BuffersVerdict, MaxRecv)
    \/ \E b \in Loops : RunRecvZero(b)
    \/ \E b \in Loops : RunRecvError(b, {105})
    \/ \E b \in Loops : RunStopExit(b)
    \/ \E b \in Loops : RunHandlePacket(b)
    \/ \E b \in Loops : NfCallbackStop(b)
    \/ \E b \in Loops : NfCallbackGo(b)
    \/ \E b \in Loops : NfCallbackDispatch(b)
    \/ \E b \in Loops : NfCallbackNullFault(b)
    \/ \E b \in Loops : NfCallbackNullWild(b)
    \/ \E b \in Loops : GoCallbackReturn(b, {0}, BOOLEAN)

SpecVerdict == Init /\ [][NextVerdict]_vars

\* Two bindings, each with its own loop, and the stopping thread; the calls
\* the loops make do not fail.
NextTwo ==
    \/ \E b \in Bindings, q \in QueueNums, i \in IdxVals : CreateQueue(b, q, i)
    \/ \E b \in Bindings : SetQueueFailOpen(b)
    \/ StopReadingPackets
    \/ \E b \in Bindings : RunEnter(b, {0}, {0})
    \/ \E b \in Bindings : RunRecvData(b, BuffersTwo, MaxRecvTwo)
    \/ \E b \in Bindings : RunRecvZero(b)
    \/ \E b \in Bindings : RunRecvError(b, {105})
    \/ \E b \in Bindings : RunStopExit(b)
    \/ \E b \in Bindings : RunHandlePacket(b)
    \/ \E b \in Bindings : NfCallbackStop(b)
    \/ \E b \in Bindings : NfCallbackGo(b)
    \/ \E b \in Bindings : NfCallbackDispatch(b)
    \/ \E b \in Bindings : NfCallbackNullFault(b)
    \/ \E b \in Bindings : NfCallbackNullWild(b)
    \/ \E b \in Bindings : GoCallbackReturn(b, {0}, {TRUE})

SpecTwo == Init /\ [][NextTwo]_vars

\* ------------------------------------------------------------- properties
\* The buffer in buf[b] was received after stop_reading_packets had completed.
ReceivedAfterStop(b) == stoppedAt[b] >= 0 /\ nrecv[b] > stoppedAt[b]

InCallback(b) == pc[b] \in {"cb_entry", "cb_body", "go_callback"}

\* C1: once stop_reading_packets has completed, no go_callback call is made
\* for any buffer that a receive returns afterwards, whatever the
\* interleaving of the store with Run and nf_callback.
C1_NoCallAfterStop ==
    \A b \in Bindings :
        ReceivedAfterStop(b) => bufCalls[b] = 0 /\ pc[b] # "go_callback"

\* Stop completed after the first buffer; the second, holding a notification,
\* was received afterwards and Run returned without a call for it.
C1_Witness ==
    \E b \in Bindings :
        /\ stoppedAt[b] = 1 /\ nrecv[b] = 2 /\ Len(buf[b]) >= 1
        /\ why[b] = "stop" /\ bufCalls[b] = 0

\* C2: when stop_reading_packets completes before Run has received anything,
\* Run never enters nf_callback and never calls go_callback, whatever its
\* receives return, up to and including its exit.
C2_EarlyStopNoDispatch ==
    \A b \in Bindings :
        stoppedAt[b] = 0 =>
            /\ ~InCallback(b)
            /\ pos[b] = 0
            /\ bufCalls[b] = 0
            /\ arg[b] = NoArg

\* Stop came first, then a buffer with a notification, and Run returned.
C2_Witness ==
    \E b \in Bindings :
        stoppedAt[b] = 0 /\ why[b] = "stop" /\ Len(buf[b]) >= 1 /\ pc[b] = "done"

C4_RefusalEndsRun ==
    \A b \in Bindings : ~(cbrc[b] < 0 /\ pc[b] = "recv")

\* C4 amended: with the flag set on entry, nf_callback makes no go_callback
\* call and returns a negative result; nfq_handle_packet gives up the rest of
\* the buffer and returns negative; Run drops that result and is back at
\* recv, and from then on it makes no further call and can only return.
C4_RefusalAbortsBuffer ==
    /\ [][\A b \in Bindings :
            (pc[b] = "cb_entry" /\ CbSeesStop(stop) /\ pc'[b] # "cb_entry") =>
                /\ cbrc'[b] < 0
                /\ hrc'[b] < 0
                /\ pc'[b] = "recv"
                /\ bufCalls'[b] = bufCalls[b]
                /\ arg'[b] = NoArg]_vars
    /\ [](\A b \in Bindings :
            hrc[b] < 0 =>
                /\ stop = 1
                /\ pc[b] \in {"recv", "check", "done"}
                /\ arg[b] = NoArg)

\* A notification was refused with others behind it in the buffer, Run went
\* back to recv, and returned when that receive gave it the next buffer.
C4_Witness ==
    \E b \in Bindings :
        /\ cbrc[b] < 0 /\ hrc[b] < 0
        /\ why[b] = "stop" /\ nrecv[b] = 2 /\ stoppedAt[b] = 1

\* C5: every go_callback call made for a packet delivered on a binding
\* carries the index and the handle that binding was created with, and so
\* never the index of another binding whose index differs.
C5_OwnIndex ==
    \A a \in Bindings :
        pc[a] = "go_callback" =>
            /\ arg[a].idx = bind[a].idx
            /\ arg[a].qh = bind[a].qh
            /\ \A b \in Bindings :
                  (b # a /\ bind[b].qh # 0 /\ bind[b].idx # bind[a].idx)
                      => arg[a].idx # bind[b].idx

\* Both bindings, created with different indices, are inside go_callback at
\* the same time.
C5_Witness ==
    /\ pc[1] = "go_callback" /\ pc[2] = "go_callback"
    /\ bind[1].idx # bind[2].idx
    /\ bind[1].idx > 65535

\* C6 as claimed: a buffer of k notifications that went through
\* nfq_handle_packet has had exactly k go_callback calls when Run receives
\* again.
C6_ExactlyK ==
    \A b \in Bindings :
        (pc[b] = "recv" /\ nrecv[b] > 0) => bufCalls[b] = Len(buf[b])

\* C6 amended: the calls made for a buffer are one per notification of a
\* prefix of it, in buffer order, all while Run is inside nfq_handle_packet;
\* when Run is back at recv with the flag still clear, the prefix is the
\* whole buffer.
C6_PrefixInOrder ==
    \A b \in Bindings :
        /\ bufCalls[b] <= Len(buf[b])
        /\ pc[b] = "check" => bufCalls[b] = 0
        /\ pc[b] \in {"cb_entry", "cb_body"} => bufCalls[b] = pos[b] - 1
        /\ pc[b] = "go_callback" =>
              /\ bufCalls[b] = pos[b]
              /\ arg[b].len = PayloadRet(buf[b][bufCalls[b]])
              /\ HasHdr(buf[b][bufCalls[b]]) =>
                    arg[b].id = WireId(buf[b][bufCalls[b]].ph)
        /\ (pc[b] = "recv" /\ nrecv[b] > 0 /\ stop = 0) => bufCalls[b] = Len(buf[b])

\* Run is back at recv, the flag clear, after a buffer of two or more
\* notifications that each had its call.
C6_Witness ==
    \E b \in Bindings :
        /\ pc[b] = "recv" /\ stop = 0
        /\ Len(buf[b]) >= 2 /\ bufCalls[b] = Len(buf[b])
        /\ buf[b][1] # buf[b][2]

\* C7: when recv fails, Run returns, its status is the errno that recv set,
\* and Run has not touched the flag: with no stop request it is still 0.
C7_RecvErrorStatus ==
    \A b \in Bindings :
        why[b] = "error" =>
            /\ pc[b] = "done"
            /\ rv[b] = -1
            /\ status[b] \in RecvErrnos
            /\ status[b] = errno[b]
            /\ stopCalls = 0 => stop = 0

\* recv failed after a buffer had been handled and with errno already set by
\* an earlier call; no stop was requested.
C7_Witness ==
    \E b \in Bindings :
        /\ why[b] = "error" /\ status[b] = 105
        /\ nrecv[b] >= 1 /\ stopCalls = 0 /\ stop = 0

\* C8: stop only ever goes from 0 to 1; after the first stop_reading_packets
\* it is 1, and a further call changes nothing of the program's state.
C8_StopMonotonic ==
    /\ [](stop \in {0, 1} /\ (stop = 1 <=> stopCalls >= 1))
    /\ [][stop' # stop => (stop = 0 /\ stop' = 1 /\ stopCalls' = stopCalls + 1)]_vars
    /\ [][(stopCalls >= 1 /\ stopCalls' # stopCalls) =>
            UNCHANGED <<stop, proc, endian, bind, pc, errno, nopt, rv, buf, pos,
                        nrecv, bufCalls, arg, cbrc, hrc, status, why>>]_vars

\* Two calls have completed, the flag is 1, a loop has run with the
\* fail-open flag set and has returned through the stop check.
C8_Witness ==
    /\ stopCalls >= 2 /\ stop = 1
    /\ \E b \in Bindings : bind[b].failopen /\ why[b] = "stop"

\* C9 as claimed: a notification without packet header gets no go_callback
\* call and costs only its buffer: no thread faults on it.
C9_NoHdrAbortsBufferOnly ==
    \A b \in Bindings :
        /\ pc[b] # "fault"
        /\ pc[b] = "go_callback" => HasHdr(Cur(b))

\* C10: a go_callback call for a notification that carries a payload of n
\* bytes, 0 <= n <= MaxPayload, gets exactly those n bytes and len = n, and
\* gets the packet id the notification's header denotes.
C10_PayloadIntact ==
    \A b \in Bindings :
        (pc[b] = "go_callback" /\ Cur(b).hasData) =>
            /\ arg[b].data = Cur(b).data
            /\ arg[b].len = Len(Cur(b).data)
            /\ arg[b].len \in 0..MaxPayload
            /\ ~arg[b].null
            /\ HasHdr(Cur(b)) => arg[b].id = WireId(Cur(b).ph)

\* A call in progress on a little-endian host with the longest payload.
C10_Witness ==
    \E b \in Bindings :
        /\ pc[b] = "go_callback" /\ endian = "little"
        /\ arg[b].id = 42 /\ arg[b].len = MaxPayload
        /\ arg[b].data = Pattern(MaxPayload)

\* C11: Run goes from not started to running to returned and never back: a
\* receive that returns zero bytes or fails, and a stop check that fires, each
\* end Run at that step, and once Run has returned it makes no receive, no
\* go_callback call and no other step.
C11_ExitOnce ==
    /\ [](\A b \in Bindings :
            /\ pc[b] = "done" <=> why[b] # "running"
            /\ (nrecv[b] > 0 /\ rv[b] <= 0) => pc[b] = "done")
    /\ [][\A b \in Bindings :
            /\ (pc[b] = "recv" /\ pc'[b] # "recv" /\ rv'[b] <= 0) => pc'[b] = "done"
            /\ (pc[b] = "check" /\ RunSeesStop(stop) /\ pc'[b] # "check")
                  => pc'[b] = "done"
            /\ pc'[b] = "idle" => pc[b] = "idle"
            /\ pc[b] = "done" =>
                  /\ pc'[b] = "done"
                  /\ nrecv'[b] = nrecv[b] /\ rv'[b] = rv[b] /\ buf'[b] = buf[b]
                  /\ bufCalls'[b] = bufCalls[b] /\ arg'[b] = arg[b]
                  /\ pos'[b] = pos[b] /\ nopt'[b] = nopt[b]
                  /\ status'[b] = status[b] /\ why'[b] = why[b]]_vars

\* Run has returned on a receive of zero bytes after handling a buffer with a
\* call, and stop_reading_packets was called after the return.
C11_Witness ==
    \E b \in Bindings :
        /\ why[b] = "closed" /\ rv[b] = 0 /\ pc[b] = "done"
        /\ nrecv[b] >= 1 /\ bufCalls[b] >= 1
        /\ stopCalls >= 1 /\ stoppedAt[b] = nrecv[b]
\* C12: while a go_callback call has not returned, its Run makes no receive:
\* a call is in progress exactly while the thread is inside go_callback, for
\* a notification of the one buffer Run holds, and a receive happens only
\* with Run at line 84, no call in progress, replacing that one buffer.
C12_CallThrottlesRecv ==
    /\ [](\A b \in Bindings :
            /\ arg[b] # NoArg <=> pc[b] = "go_callback"
            /\ pc[b] = "go_callback" => pos[b] \in 1..Len(buf[b]))
    /\ [][\A b \in Bindings :
            /\ pc[b] = "go_callback" =>
                  nrecv'[b] = nrecv[b] /\ buf'[b] = buf[b] /\ rv'[b] = rv[b]
            /\ (nrecv'[b] # nrecv[b] \/ buf'[b] # buf[b] \/ rv'[b] # rv[b]) =>
                  /\ pc[b] = "recv" /\ arg[b] = NoArg
                  /\ nrecv'[b] <= nrecv[b] + 1]_vars

\* A call is in progress for the first notification of the second buffer,
\* with another notification behind it.
C12_Witness ==
    \E b \in Bindings :
        /\ pc[b] = "go_callback" /\ arg[b] # NoArg
        /\ nrecv[b] = 2 /\ pos[b] = 1 /\ Len(buf[b]) >= 2
\* C13 as claimed: once stop_reading_packets has been called with Run
\* running, Run eventually returns, given that its thread takes its steps and
\* every recv returns; and Run returns only at a receive's return, out of
\* line 84 or out of the check that follows it.
C13_StopLeadsToReturn ==
    /\ \A b \in Loops :
          (stop = 1 /\ pc[b] \notin {"idle", "done"}) ~> pc[b] = "done"
    /\ [][\A b \in Loops :
            (pc[b] # "done" /\ pc'[b] = "done") => pc[b] \in {"recv", "check"}]_vars
\* C14: Run calls setsockopt once, before its first recv: a Run that has not
\* started has made no call and no receive, a Run that has started has made
\* exactly one call, and every recv return finds that call already made.
C14_OptOnceBeforeRecv ==
    /\ [](\A b \in Bindings :
            /\ pc[b] = "idle" => (nopt[b] = 0 /\ nrecv[b] = 0 /\ rv[b] = 0)
            /\ pc[b] # "idle" => nopt[b] = 1)
    /\ [][\A b \in Bindings :
            (nrecv'[b] # nrecv[b] \/ rv'[b] # rv[b] \/ (pc[b] = "recv" /\ pc'[b] # "recv"))
                => (nopt[b] = 1 /\ nopt'[b] = 1)]_vars

\* The setsockopt call failed, its result was dropped, and Run has made
\* every receive it can since, still with that one call.
C14_Witness ==
    \E b \in Bindings :
        /\ nopt[b] = 1 /\ errno[b] \in SetsockoptErrnos
        /\ nrecv[b] = MaxRecv /\ pc[b] = "recv"
\* C15: when Run finds stop = 1 at line 85, after a receive of n > 0 bytes,
\* it returns at that step: the buffer is not given to nfq_handle_packet, no
\* notification of it is looked at and none gets a go_callback call.
C15_StopCheckBeforeHandOff ==
    /\ [][\A b \in Bindings :
            (pc[b] = "check" /\ stop = 1 /\ pc'[b] # "check") =>
                /\ pc'[b] = "done" /\ why'[b] = "stop"
                /\ pos'[b] = 0 /\ bufCalls'[b] = 0
                /\ hrc'[b] = hrc[b] /\ cbrc'[b] = cbrc[b]
                /\ arg'[b] = NoArg]_vars
    /\ [](\A b \in Bindings :
            why[b] = "stop" =>
                /\ rv[b] = 1 /\ pc[b] = "done"
                /\ pos[b] = 0 /\ bufCalls[b] = 0 /\ arg[b] = NoArg)

\* Run handled a first buffer completely, then received one that starts with
\* a notification without packet header, found the flag set and returned.
C15_Witness ==
    \E b \in Bindings :
        /\ why[b] = "stop" /\ nrecv[b] = 2 /\ hrc[b] = 0 /\ cbrc[b] = 0
        /\ Len(buf[b]) = MaxBatch /\ ~HasHdr(buf[b][1]) /\ pos[b] = 0
\* C16 as claimed: once stop_reading_packets has been called, no Run on any
\* binding makes a go_callback call any more, and each returns at its first
\* receive that yields data.  (Stated for notifications that carry their
\* packet header.)
C16_NoDispatchOnceStopped ==
    /\ [][\A b \in Bindings :
            (stop = 1 /\ pc[b] # "go_callback" /\ pc'[b] = "go_callback")
                => ~HasHdr(buf[b][pos[b]])]_vars
    /\ [](\A b \in Bindings :
            ReceivedAfterStop(b) =>
                (nrecv[b] = stoppedAt[b] + 1 /\ pc[b] \in {"check", "done"}))

\* C16 amended: the one flag stops every loop.  After a stop_reading_packets
\* call, a Run on any binding, one started afterwards on a binding created
\* afterwards included, makes no call for any buffer it receives after the
\* call and returns through the stop check at the first such receive that
\* yields data; every notification that reaches line 43 after the call is
\* refused.  Only a notification that had passed line 43 before the call is
\* still handed to go_callback.
C16_SharedStop ==
    /\ [](\A b \in Bindings :
            /\ ReceivedAfterStop(b) =>
                  /\ nrecv[b] = stoppedAt[b] + 1
                  /\ pc[b] \in {"check", "done"}
                  /\ pc[b] = "done" => why[b] = "stop"
                  /\ bufCalls[b] = 0 /\ pos[b] = 0 /\ arg[b] = NoArg
            /\ lateBound[b] =>
                  /\ stop = 1 /\ stoppedAt[b] = 0
                  /\ ~InCallback(b)
                  /\ bufCalls[b] = 0 /\ pos[b] = 0 /\ arg[b] = NoArg
                  /\ why[b] \in {"running", "stop", "closed", "error"}
                  /\ nrecv[b] >= 1 => pc[b] \in {"check", "done"})
    /\ [][\A b \in Bindings :
            /\ (stop = 1 /\ pc[b] # "go_callback" /\ pc'[b] = "go_callback") =>
                  (pc[b] = "cb_body" /\ ~ReceivedAfterStop(b) /\ ~lateBound[b])
            /\ (stop = 1 /\ pc[b] = "cb_entry" /\ pc'[b] # "cb_entry") =>
                  (pc'[b] = "recv" /\ bufCalls'[b] = bufCalls[b] /\ arg'[b] = NoArg)]_vars

\* After one call, a Run that was running on one binding and a Run started
\* on a binding created after the call have both received a notification and
\* returned through the stop check.
C16_Witness ==
    \E a, b \in Bindings :
        /\ stopCalls = 1
        /\ ~lateBound[a] /\ why[a] = "stop" /\ Len(buf[a]) = 1
        /\ lateBound[b] /\ why[b] = "stop" /\ Len(buf[b]) = 1
        /\ bind[a].idx # bind[b].idx
\* C17 as claimed: in every go_callback call the length argument is not
\* negative and is the number of payload bytes passed, also for a
\* notification for which nfq_get_payload fails.
C17_LenNonNegative ==
    \A b \in Bindings :
        pc[b] = "go_callback" =>
            /\ arg[b].len >= 0
            /\ arg[b].len = Len(arg[b].data)
\* C18: nf_callback issues no verdict and keeps no state.  Its own steps,
\* the refusal, the passed stop test, the hand-over to go_callback and the
\* fault of line 54 alike, leave the flag, the bindings and every queue's
\* set of packets awaiting a verdict as they were, and make at most the one
\* go_callback call.  When that call returns, nf_callback returns 0 at once
\* and the decode loop moves on, whether go_callback issued the verdict
\* (the packet left the set) or not (the set is as it was).
C18_BridgeFrame ==
    [][\A b \in Bindings :
          /\ (pc[b] \in {"cb_entry", "cb_body"} /\ pc'[b] # pc[b]) =>
                /\ stop' = stop /\ stopCalls' = stopCalls
                /\ bind' = bind
                /\ pending' = pending
                /\ bufCalls'[b] = bufCalls[b] + (IF pc'[b] = "go_callback" THEN 1 ELSE 0)
                /\ pc'[b] = "go_callback" => pc[b] = "cb_body"
          /\ (pc[b] = "go_callback" /\ pc'[b] # "go_callback") =>
                /\ cbrc'[b] = 0
                /\ pc'[b] \in {"cb_entry", "recv"}
                /\ stop' = stop /\ bind' = bind
                /\ bufCalls'[b] = bufCalls[b]
                /\ pending'[b] \in {pending[b], pending[b] \ {arg[b].id}}]_vars

\* Run is back at recv after a buffer of two packets on a fail-open queue:
\* both calls returned and nf_callback returned 0 for each, the verdict for
\* packet 258 issued inside its call, the one for packet 42 still awaited.
C18_Witness ==
    \E b \in Bindings :
        /\ pc[b] = "recv" /\ bufCalls[b] = 2 /\ cbrc[b] = 0 /\ hrc[b] = 0
        /\ Len(buf[b]) = 2 /\ HasHdr(buf[b][1]) /\ HasHdr(buf[b][2])
        /\ pending[b] = {42}
        /\ bind[b].failopen /\ stop = 0
====
